---- MODULE Spec2Model ----
(***************************************************************************)
(* Model of concat_sources.py: main() checks the root folder, builds the   *)
(* extension filter, enumerates the matching files (collect_files) and     *)
(* renders them into one Markdown document (make_big_file).                *)
(*                                                                         *)
(* Strings are sequences of one-character strings.  The bytes of a file    *)
(* are such a sequence too; "<FF>" stands for a byte that is not valid     *)
(* UTF-8 and "<U+FFFD>" for the replacement character.  The same command   *)
(* line is run twice in a row against the same tree, so that what the      *)
(* first run leaves on disk is what the second run finds.                  *)
(*                                                                         *)
(* The directory iterator delivers its entries in any order.  Any read of  *)
(* a source file may raise; the exception leaves make_big_file and main.   *)
(* While the output is open, only a read of the output file itself can     *)
(* tell how much of the written text has reached the disk, so the model    *)
(* decides that at such a read and nowhere else.                           *)
(***************************************************************************)
EXTENDS Naturals, Sequences, FiniteSets

VARIABLES
    args,         \* the parsed command line (parse_args), fixed for both runs
    fs,           \* regular files on disk: path -> bytes
    fsStart,      \* fs as it was when the current run started
    run,          \* 1 or 2: which of the two successive runs is executing
    pc,           \* position in main / make_big_file
    exts,         \* main's exts: [none |-> TRUE] is None, else the set members
    output_path,  \* main's output_path
    files,        \* main's files, the list collect_files returned
    i,            \* make_big_file's loop counter (enumerate(files, start=1))
    written,      \* what out.write() was given while the handle is open
    texts,        \* the value of text for each file rendered so far
    opens,        \* how many times this run opened the output for writing
    isOpen,       \* whether the handle out is open
    reported,     \* the counts make_big_file printed (line 55)
    exit,         \* <<c>> once main has returned c, <<>> before
    doc1,         \* bytes at output_path when run 1 returned 0
    exit1         \* exit, as run 1 left it

vars == <<args, fs, fsStart, run, pc, exts, output_path, files, i, written,
          texts, opens, isOpen, reported, exit, doc1, exit1>>

\* None, for an argument that is a string or a list: both are tested by
\* truth value (lines 103, 109), which an empty one fails as None does.
None == <<>>

\* exts = None (line 102), and the value of exts before main sets it
ExtsNone == [none |-> TRUE, members |-> {}]
ExtsOf(S) == [none |-> FALSE, members |-> S]

\* ------------------------------------------------------------------ bounds
\* At most MaxFiles regular files exist when the first run starts.
MaxFiles == 2

\* ------------------------------------------------------------- characters
NL == "\n"
CR == "\r"
BadByte == "<FF>"
Replacement == "<U+FFFD>"

UpperCase == <<"A","B","C","D","E","F","G","H","I","J","K","L","M",
               "N","O","P","Q","R","S","T","U","V","W","X","Y","Z">>
LowerCase == <<"a","b","c","d","e","f","g","h","i","j","k","l","m",
               "n","o","p","q","r","s","t","u","v","w","x","y","z">>

\* Code-point order of the characters that occur in the modelled paths.
CodeOrder == <<".", "/">> \o UpperCase \o <<"_">> \o LowerCase

PathChars == {CodeOrder[k] : k \in 1..Len(CodeOrder)}

OrdTable == [c \in PathChars |-> CHOOSE k \in 1..Len(CodeOrder) : CodeOrder[k] = c]

Ord(c) == OrdTable[c]

LowerTable ==
    [c \in PathChars |->
        IF \E k \in 1..Len(UpperCase) : UpperCase[k] = c
        THEN LowerCase[CHOOSE k \in 1..Len(UpperCase) : UpperCase[k] = c]
        ELSE c]

\* str.lower() on one character
LowerChar(c) == LowerTable[c]

\* str.lower()
Lower(s) == [k \in 1..Len(s) |-> LowerChar(s[k])]

\* s < t for Python strings: lexicographic by code point
StrLess(s, t) ==
    \E k \in 1..(Len(s) + 1) :
        /\ k <= Len(t)
        /\ \A j \in 1..(k - 1) : s[j] = t[j]
        /\ \/ k = Len(s) + 1
           \/ Ord(s[k]) < Ord(t[k])

StartsWith(s, prefix) ==
    /\ Len(prefix) <= Len(s)
    /\ SubSeq(s, 1, Len(prefix)) = prefix

\* ------------------------------------------------------------------ paths
Slash == <<"/">>
Join(base, name) == base \o Slash \o name

Root == <<"/", "r">>
SubDir == Join(Root, <<"d", ".", "p", "y">>)
DefaultName == <<"a","l","l","_","s","o","u","r","c","e","s",".","m","d">>

FileLower == Join(Root, <<"a", ".", "p", "y">>)
FileUpper == Join(Root, <<"A", ".", "P", "Y">>)
FileNoSuffix == Join(Root, <<"M", "k">>)
FileNested == Join(SubDir, <<"e", ".", "p", "y">>)
FileDefaultOut == Join(Root, DefaultName)
FileOutside == <<"/", "o", ".", "m", "d">>

\* The regular files a tree may hold.  FileOutside, an output path outside
\* the root, exists only once a run has written it.
FileUniverse ==
    {FileLower, FileUpper, FileNoSuffix, FileNested, FileDefaultOut}

\* The directories of every tree; SubDir carries a source suffix.
Dirs == {Root, SubDir}

LastSlash(p) == CHOOSE k \in 1..Len(p) :
    /\ p[k] = "/"
    /\ \A j \in (k + 1)..Len(p) : p[j] # "/"

\* PurePath.parent and PurePath.name
Parent(p) == SubSeq(p, 1, LastSlash(p) - 1)
Name(p) == SubSeq(p, LastSlash(p) + 1, Len(p))

\* PurePath.suffix: the last dot of the name and what follows it, unless that
\* dot is the first or the last character of the name.
Suffix(p) ==
    LET n == Name(p)
        dots == {k \in 1..Len(n) : n[k] = "."}
    IN  IF dots = {} THEN <<>>
        ELSE LET d == CHOOSE k \in dots : \A j \in dots : j <= k
             IN  IF 1 < d /\ d < Len(n) THEN SubSeq(n, d, Len(n)) ELSE <<>>

\* PurePath.relative_to(base) for a path under base
RelativeTo(p, base) == SubSeq(p, Len(base) + 2, Len(p))

\* ----------------------------------------------------------- file contents
Contents ==
    { <<>>,
      <<"x">>,
      <<"y", NL, NL>>,
      <<BadByte, "z", CR, NL>> }

Trees ==
    UNION { [S -> Contents] :
            S \in {T \in SUBSET FileUniverse : Cardinality(T) <= MaxFiles} }

\* bytes.decode("utf-8", errors="replace"); the strict decode of line 47
\* gives the same text whenever it succeeds.
Decode(bytes) ==
    [k \in 1..Len(bytes) |-> IF bytes[k] = BadByte THEN Replacement ELSE bytes[k]]

\* Universal-newline translation of text-mode reads: \r\n and \r become \n.
RECURSIVE Newlines(_)
Newlines(s) ==
    IF s = <<>> THEN <<>>
    ELSE IF s[1] = CR
         THEN IF Len(s) >= 2 /\ s[2] = NL
              THEN <<NL>> \o Newlines(SubSeq(s, 3, Len(s)))
              ELSE <<NL>> \o Newlines(Tail(s))
         ELSE <<s[1]>> \o Newlines(Tail(s))

\* path.read_text(encoding="utf-8"), with the fallback of lines 48-50
ReadText(bytes) == Newlines(Decode(bytes))

\* --------------------------------------------------------- is_source_file
DEFAULT_EXTS ==
    { <<".", "c">>, <<".", "h">>, <<".", "c", "p", "p">>, <<".", "h", "p", "p">>,
      <<".", "c", "c">>, <<".", "h", "h">>, <<".", "p", "y">>, <<".", "j", "s">>,
      <<".", "t", "s">>, <<".", "j", "a", "v", "a">>, <<".", "c", "s">>,
      <<".", "g", "o">>, <<".", "r", "s">>, <<".", "p", "h", "p">>,
      <<".", "h", "t", "m", "l">>, <<".", "c", "s", "s">> }

\* Path.is_file() / Path.is_dir() against the tree f
IsFile(f, path) == path \in DOMAIN f
IsDir(path) == path \in Dirs

\* is_source_file without the test of line 17
is_source_file_any(f, path, ex) ==
    \/ ex.none
    \/ Lower(Suffix(path)) \in ex.members

is_source_file(f, path, ex) ==
    /\ IsFile(f, path)
    /\ \/ ex.none
       \/ Lower(Suffix(path)) \in ex.members

\* ---------------------------------------------------------- collect_files
\* What folder.glob("*") / folder.rglob("*") yield, in some order.
Glob(f, folder, recursive) ==
    IF recursive
    THEN {p \in (DOMAIN f) \cup Dirs : StartsWith(p, folder \o Slash)}
    ELSE {p \in (DOMAIN f) \cup Dirs : Parent(p) = folder}

\* The orders in which the directory iterator may deliver the set S.
RECURSIVE Orders(_)
Orders(S) ==
    IF S = {} THEN {<<>>}
    ELSE UNION {{<<x>> \o o : o \in Orders(S \ {x})} : x \in S}

RECURSIVE Filter(_, _, _)
Filter(f, seq, ex) ==
    IF seq = <<>> THEN <<>>
    ELSE IF is_source_file(f, seq[1], ex)
         THEN <<seq[1]>> \o Filter(f, Tail(seq), ex)
         ELSE Filter(f, Tail(seq), ex)

\* a sort key that keeps the case: str(p)
SortKeyRaw(p) == p

\* key=lambda p: str(p).lower()
SortKey(p) == Lower(p)

\* list.sort(key=...): stable, so elements with equal keys keep the order in
\* which they stood.
RECURSIVE Sort(_)
Sort(seq) ==
    IF seq = <<>> THEN <<>>
    ELSE LET n == Len(seq)
             x == seq[n]
             rest == Sort(SubSeq(seq, 1, n - 1))
             k == Cardinality({j \in 1..Len(rest) :
                                  ~StrLess(SortKey(x), SortKey(rest[j]))})
         IN  SubSeq(rest, 1, k) \o <<x>> \o SubSeq(rest, k + 1, Len(rest))

collect_files(f, order, ex) == Sort(Filter(f, order, ex))

\* ---------------------------------------------------------- make_big_file
\* The fence is three backticks; the character is written as a token, since
\* the lexer of TLA+ reserves it.
Backtick == "<backtick>"

Fence == <<Backtick, Backtick, Backtick>>

HeadingOf(path, base) == <<"#", "#", " ">> \o RelativeTo(path, base) \o <<NL>>

\* str.rstrip("\n")
RECURSIVE RStripNL(_)
RStripNL(text) ==
    IF text # <<>> /\ text[Len(text)] = NL
    THEN RStripNL(SubSeq(text, 1, Len(text) - 1))
    ELSE text

\* a heading that names the whole path instead of rel_name
EntryHeadFull(path, base) ==
    <<"#", "#", " ">> \o path \o <<NL>> \o Fence \o <<NL>>

\* lines 43-44: the heading and the opening fence of one entry
EntryHead(path, base) == HeadingOf(path, base) \o Fence \o <<NL>>

\* a body written without rstrip
EntryTailRaw(text) == text \o <<NL>> \o Fence \o <<NL, NL>>

\* lines 52-53: the body and the closing fence of one entry
EntryTail(text) == RStripNL(text) \o <<NL>> \o Fence \o <<NL, NL>>

\* What a read of path returns while the output is open.  The output file
\* itself shows the part of what was written that has left the buffers of
\* the handle: nothing yet, the entries before this one (done), or all of it.
Readable(f, path, outp, done, sofar) ==
    IF path = outp
    THEN {<<>>, done, sofar}
    ELSE {f[path]}

\* a handle dropped without close: what its buffers held never reaches disk
ClosedLost(f, outp, sofar) == f

\* Leaving the with block closes the handle: all that was written is on disk.
Closed(f, outp, sofar) == [f EXCEPT ![outp] = sofar]

\* open("w"): the file is created or truncated
Truncated(f, outp) ==
    [p \in (DOMAIN f) \cup {outp} |-> IF p = outp THEN <<>> ELSE f[p]]

\* ------------------------------------------------------------------- main
Range(seq) == {seq[k] : k \in 1..Len(seq)}

\* The --ext lists: one value in upper case, and two values of which one
\* comes without its dot.
ExtLists ==
    { <<<<".", "P", "Y">>>>,
      <<<<".", "m", "d">>, <<"p", "y">>>> }

Filters ==
    {[all |-> TRUE, ext |-> None], [all |-> FALSE, ext |-> None]}
    \cup {[all |-> FALSE, ext |-> l] : l \in ExtLists}

\* The command lines: the root with every output, depth and filter, and a
\* folder argument that names a regular file or nothing at all.
ArgSets ==
    {[folder |-> Root, output |-> o, recursive |-> r, all |-> fl.all, ext |-> fl.ext] :
        o \in {None, FileLower, FileOutside},
        r \in BOOLEAN,
        fl \in Filters}
    \cup
    {[folder |-> FileLower, output |-> o, recursive |-> FALSE, all |-> FALSE,
      ext |-> None] : o \in {None, FileUpper, FileOutside}}

\* line 104
NormalizeExt(e) == IF StartsWith(e, <<".">>) THEN e ELSE <<".">> \o e

\* lines 101-106
MakeExts(a) ==
    IF a.all THEN ExtsNone
    ELSE IF a.ext # None THEN ExtsOf({NormalizeExt(e) : e \in Range(a.ext)})
    ELSE ExtsOf(DEFAULT_EXTS)

\* lines 109-112
MakeOutputPath(a) ==
    IF a.output # None THEN a.output ELSE Join(a.folder, DefaultName)

Init ==
    /\ args \in ArgSets
    /\ fs \in Trees
    /\ fsStart = fs
    /\ run = 1
    /\ pc = "start"
    /\ exts = ExtsNone
    /\ output_path = None
    /\ files = <<>>
    /\ i = 1
    /\ written = <<>>
    /\ texts = <<>>
    /\ opens = 0
    /\ isOpen = FALSE
    /\ reported = <<>>
    /\ exit = <<>>
    /\ doc1 = <<>>
    /\ exit1 = <<>>

\* lines 93-112: the directory check, the filter and the output path
CheckDir ==
    /\ pc = "start"
    /\ IF ~IsDir(args.folder)
       THEN /\ pc' = "done"
            /\ exit' = <<1>>
            /\ UNCHANGED <<exts, output_path>>
       ELSE /\ pc' = "collect"
            /\ exts' = MakeExts(args)
            /\ output_path' = MakeOutputPath(args)
            /\ UNCHANGED exit
    /\ UNCHANGED <<args, fs, fsStart, run, files, i, written, texts, opens,
                   isOpen, reported, doc1, exit1>>

\* lines 114-117, as they would read with the output opened before the
\* emptiness test
CollectOpeningFirst ==
    /\ pc = "collect"
    /\ files' \in {collect_files(fs, order, exts) :
                      order \in Orders(Glob(fs, args.folder, args.recursive))}
    /\ IF files' = <<>>
       THEN /\ pc' = "done"
            /\ exit' = <<1>>
            /\ fs' = Truncated(fs, output_path)
       ELSE /\ pc' = "open"
            /\ UNCHANGED <<exit, fs>>
    /\ UNCHANGED <<args, fsStart, run, exts, output_path, i, written, texts,
                   opens, isOpen, reported, doc1, exit1>>

\* lines 114-119 without the emptiness test of lines 115-117
CollectNoCheck ==
    /\ pc = "collect"
    /\ files' \in {collect_files(fs, order, exts) :
                      order \in Orders(Glob(fs, args.folder, args.recursive))}
    /\ pc' = "open"
    /\ UNCHANGED <<args, fs, fsStart, run, exts, output_path, i, written, texts,
                   opens, isOpen, reported, exit, doc1, exit1>>

\* lines 114-117: enumerate; an empty list ends the run
Collect ==
    /\ pc = "collect"
    /\ files' \in {collect_files(fs, order, exts) :
                      order \in Orders(Glob(fs, args.folder, args.recursive))}
    /\ IF files' = <<>>
       THEN /\ pc' = "done"
            /\ exit' = <<1>>
       ELSE /\ pc' = "open"
            /\ UNCHANGED exit
    /\ UNCHANGED <<args, fs, fsStart, run, exts, output_path, i, written, texts,
                   opens, isOpen, reported, doc1, exit1>>

\* line 37: make_big_file opens the output for writing
Open ==
    /\ pc = "open"
    /\ fs' = Truncated(fs, output_path)
    /\ written' = <<>>
    /\ texts' = <<>>
    /\ i' = 1
    /\ opens' = opens + 1
    /\ isOpen' = TRUE
    /\ pc' = "render"
    /\ UNCHANGED <<args, fsStart, run, exts, output_path, files, reported, exit,
                   doc1, exit1>>

\* lines 38-53: one iteration of the loop, the read succeeding
RenderFile ==
    /\ pc = "render"
    /\ i <= Len(files)
    /\ LET sofar == written \o EntryHead(files[i], args.folder)
       IN  \E bytes \in Readable(fs, files[i], output_path, written, sofar) :
              /\ texts' = Append(texts, ReadText(bytes))
              /\ written' = sofar \o EntryTail(ReadText(bytes))
    /\ i' = i + 1
    /\ UNCHANGED <<args, fs, fsStart, run, pc, exts, output_path, files, opens,
                   isOpen, reported, exit, doc1, exit1>>

\* lines 38-47: one iteration of the loop, read_text raising an error other
\* than UnicodeDecodeError; the exception leaves the with block and main
ReadError ==
    /\ pc = "render"
    /\ i <= Len(files)
    /\ fs' = Closed(fs, output_path, written \o EntryHead(files[i], args.folder))
    /\ written' = <<>>
    /\ isOpen' = FALSE
    /\ pc' = "raised"
    /\ UNCHANGED <<args, fsStart, run, exts, output_path, files, i, texts, opens,
                   reported, exit, doc1, exit1>>

\* lines 53-55 and 120: the loop is over, the handle is closed, the count is
\* printed and main returns 0
Finish ==
    /\ pc = "render"
    /\ i > Len(files)
    /\ fs' = Closed(fs, output_path, written)
    /\ written' = <<>>
    /\ isOpen' = FALSE
    /\ reported' = Append(reported, Len(files))
    /\ exit' = <<0>>
    /\ pc' = "done"
    /\ UNCHANGED <<args, fsStart, run, exts, output_path, files, i, texts, opens,
                   doc1, exit1>>

\* The same command line is run a second time against what the first left,
\* once main has returned from the first.
SecondRun ==
    /\ run = 1
    /\ pc = "done"
    /\ run' = 2
    /\ pc' = "start"
    /\ fsStart' = fs
    /\ doc1' = IF exit = <<0>> THEN fs[output_path] ELSE <<>>
    /\ exit1' = exit
    /\ exts' = ExtsNone
    /\ output_path' = None
    /\ files' = <<>>
    /\ i' = 1
    /\ written' = <<>>
    /\ texts' = <<>>
    /\ opens' = 0
    /\ isOpen' = FALSE
    /\ reported' = <<>>
    /\ exit' = <<>>
    /\ UNCHANGED <<args, fs>>

Next ==
    \/ CheckDir
    \/ Collect
    \/ Open
    \/ RenderFile
    \/ ReadError
    \/ Finish
    \/ SecondRun

Spec == Init /\ [][Next]_vars

\* ================================================================= claims
\* The list exists once collect_files has returned it.
Enumerated == pc \in {"open", "render", "done", "raised"}

\* main has returned 0.
Succeeded == pc = "done" /\ exit = <<0>>

\* The part of a path under the root folder that follows "<folder>/".
Below(p) == SubSeq(p, Len(args.folder) + 2, Len(p))

\* The regular files the enumeration is to return, read off the tree as the
\* run found it.
Wanted ==
    {p \in DOMAIN fsStart :
        /\ StartsWith(p, args.folder \o <<"/">>)
        /\ args.recursive \/ \A k \in 1..Len(Below(p)) : Below(p)[k] # "/"
        /\ exts.none \/ Lower(Suffix(p)) \in exts.members}

\* C2: the list collect_files returns is sorted case-insensitively by path
\* string: for adjacent files p, q, lower(str(p)) <= lower(str(q)).
C2_SortedCaseInsensitive ==
    Enumerated =>
        \A k \in 1..(Len(files) - 1) :
            ~StrLess(Lower(files[k + 1]), Lower(files[k]))

\* A list of two or more files whose order by raw path string is not its
\* order by lowercased path string.
C2_Witness ==
    /\ Enumerated
    /\ \E k \in 1..(Len(files) - 1) : StrLess(files[k + 1], files[k])

\* C3: collect_files returns, each once, exactly the regular files directly
\* in the folder (at any depth when recursive) whose lowercased suffix is in
\* exts, or all of them when exts is None; never a directory.
C3_CollectExact ==
    Enumerated =>
        /\ \A a, b \in 1..Len(files) : a # b => files[a] # files[b]
        /\ Range(files) = Wanted
        /\ Range(files) \cap Dirs = {}

\* A flat, unfiltered enumeration of a tree with a nested file returns the
\* file without suffix and not the nested one.
C3_Witness ==
    /\ pc = "open"
    /\ ~args.recursive
    /\ exts.none
    /\ FileNested \in DOMAIN fsStart
    /\ Range(files) = {FileNoSuffix}

ExpectedEntry(k) ==
    <<"#", "#", " ">> \o Below(files[k]) \o <<NL>>
        \o Fence \o <<NL>>
        \o RStripNL(texts[k]) \o <<NL>>
        \o Fence \o <<NL>>
        \o <<NL>>

RECURSIVE ExpectedEntries(_)
ExpectedEntries(n) ==
    IF n = 0 THEN <<>> ELSE ExpectedEntries(n - 1) \o ExpectedEntry(n)

\* C4: after a successful make_big_file the document is, in list order, one
\* entry per enumerated file and nothing else, each entry being the heading
\* "## <path relative to root>", the fence, the content of the file, the
\* fence and a blank line; the reported count is the number of entries.
C4_Document ==
    Succeeded =>
        /\ Len(texts) = Len(files)
        /\ \A k \in 1..Len(files) :
              /\ Join(args.folder, Below(files[k])) = files[k]
              /\ files[k] # output_path => texts[k] = ReadText(fsStart[files[k]])
        /\ fs[output_path] = ExpectedEntries(Len(files))
        /\ reported = <<Len(files)>>

\* A document of two entries, one of them for a file in a subdirectory.
C4_Witness ==
    /\ Succeeded
    /\ Len(files) = 2
    /\ FileNested \in Range(files)

\* The length of text without its trailing newlines.
TrimLen(t) ==
    CHOOSE n \in 0..Len(t) :
        /\ n = 0 \/ t[n] # NL
        /\ \A j \in (n + 1)..Len(t) : t[j] = NL

EntryLen(k) == 3 + Len(Below(files[k])) + 1 + 4 + TrimLen(texts[k]) + 1 + 4 + 1

RECURSIVE EntryStart(_)
EntryStart(k) == IF k = 1 THEN 0 ELSE EntryStart(k - 1) + EntryLen(k - 1)

\* C5: between the opening and the closing fence of every entry stands the
\* content of the file without its trailing newlines, followed by exactly
\* one newline.
C5_OneTrailingNewline ==
    Succeeded =>
        \A k \in 1..Len(files) :
            LET doc == fs[output_path]
                n == TrimLen(texts[k])
                h == EntryStart(k) + 3 + Len(Below(files[k])) + 1
            IN  /\ SubSeq(doc, h + 1, h + 4) = Fence \o <<NL>>
                /\ SubSeq(doc, h + 5, h + 4 + n) = SubSeq(texts[k], 1, n)
                /\ n = 0 \/ doc[h + 4 + n] # NL
                /\ doc[h + 5 + n] = NL
                /\ SubSeq(doc, h + 6 + n, h + 9 + n) = Fence \o <<NL>>

\* A document with an empty file and a file that ended in two newlines.
C5_Witness ==
    /\ Succeeded
    /\ \E a, b \in 1..Len(texts) :
          /\ texts[a] = <<>>
          /\ texts[b] = <<"y", NL, NL>>

\* C6: main returns 1 exactly when the root is not a directory or no file
\* matches, and 0 otherwise, the document then being on disk.
C6_ExitCode ==
    pc = "done" =>
        /\ exit \in {<<0>>, <<1>>}
        /\ exit = <<1>> <=> (args.folder \notin Dirs \/ Wanted = {})
        /\ exit = <<0>> => output_path \in DOMAIN fs /\ reported # <<>>

\* The root is a directory that holds files, and none of them matches.
C6_Witness ==
    /\ pc = "done"
    /\ exit = <<1>>
    /\ args.folder \in Dirs
    /\ \E p \in DOMAIN fsStart : StartsWith(p, args.folder \o <<"/">>)

\* C7: a run that ends with exit code 1 leaves the output path as it was:
\* no file is created there and an existing one keeps its bytes.
C7_ExitOneLeavesOutput ==
    (pc = "done" /\ exit = <<1>>) =>
        LET outp == MakeOutputPath(args)
        IN  /\ outp \in DOMAIN fs <=> outp \in DOMAIN fsStart
            /\ outp \in DOMAIN fs => fs[outp] = fsStart[outp]

\* No file matched, and the output path held a non-empty file.
C7_Witness ==
    /\ pc = "done"
    /\ exit = <<1>>
    /\ args.folder \in Dirs
    /\ MakeOutputPath(args) \in DOMAIN fsStart
    /\ fsStart[MakeOutputPath(args)] # <<>>

\* The stages of a run, in the order in which main goes through them.
Stage ==
    CASE pc = "start" -> 0
      [] pc = "collect" -> 1
      [] pc = "open" -> 2
      [] pc = "render" -> 3
      [] pc \in {"done", "raised"} -> 4

\* What an aborted run leaves on disk: the entries before the file whose
\* read failed, then the heading and the opening fence of that file.
ExpectedPartial(k) ==
    ExpectedEntries(k - 1)
        \o <<"#", "#", " ">> \o Below(files[k]) \o <<NL>> \o Fence \o <<NL>>

C9_State ==
    /\ opens <= 1
    /\ opens = 1 => Stage >= 3 /\ files # <<>>
    /\ isOpen => pc = "render"
    /\ pc = "raised" =>
          /\ exit = <<>>
          /\ Len(texts) = i - 1
          /\ fs[output_path] = ExpectedPartial(i)

C9_Step ==
    /\ run' = run => Stage' >= Stage /\ i' >= i
    /\ opens' > opens => opens' = 1 /\ pc = "open" /\ files # <<>>
    /\ pc = "raised" => UNCHANGED vars

\* C9: a run goes through the directory check, the enumeration and the
\* rendering in that order, never backwards; the output is opened once, after
\* the enumeration returned a non-empty list, and is closed on every way out
\* of make_big_file; when the read of the k-th file fails, the run stops
\* there, nothing further is read or written, and entries 1..k-1 with the
\* k-th heading and opening fence stay on disk.
C9_StagesAndAbort == [](C9_State) /\ [][C9_Step]_vars

\* The read of the second file failed.
C9_Witness ==
    /\ pc = "raised"
    /\ i = 2
    /\ ~isOpen

\* C1: two successive runs of main with the same arguments against the same
\* tree leave byte-identical documents, whatever the filter, the output path
\* and the order of the directory iterator.
C1_TwoRunsIdentical ==
    (run = 2 /\ Succeeded /\ exit1 = <<0>>) => fs[output_path] = doc1

\* C8: the filter main builds from --ext holds lowercase suffixes that begin
\* with a dot, so a file whose lowercased suffix is a requested extension,
\* whatever the case of the request, is selected.
C8_ExtFilterLowercase ==
    (Enumerated /\ ~args.all /\ args.ext # None) =>
        /\ \A e \in exts.members : e[1] = "." /\ Lower(e) = e
        /\ \A p \in DOMAIN fsStart :
              ( /\ Parent(p) = args.folder
                /\ \E e \in Range(args.ext) :
                      Lower(Suffix(p)) = Lower(NormalizeExt(e)) )
              => p \in Range(files)

\* C10: the path make_big_file opens for writing is never in the list
\* collect_files returned, so the body of every entry is the content the
\* file had when the run started.
C10_OutputNotASource ==
    /\ Enumerated => output_path \notin Range(files)
    /\ Succeeded =>
          \A k \in 1..Len(files) : texts[k] = ReadText(fsStart[files[k]])

====
